---- MODULE Spec2Model ----
(***************************************************************************)
(* Model of the BMP180 barometric sensor driver                            *)
(* (src/src/altimeter/include/altimeter/BMP180_driver.py).                 *)
(*                                                                         *)
(* One device object, its constructor, the oversampling-mode property,     *)
(* the three accessors and the reading cycle _update_sensor_data, which    *)
(* is split at its bus operations and sleeps so that bus faults and the    *)
(* order of bus events are visible.  Times are in units of 0.1 ms.         *)
(* Python floats x / 10.0 and x / 100.0 are kept as exact fractions        *)
(* [num, den].  Python integers are unbounded; TLC's integers are 32 bit   *)
(* and stop with an overflow error instead of wrapping, so products        *)
(* that exceed that range are computed by the exact helpers MulFloorDiv    *)
(* and MulShr below.                                                       *)
(***************************************************************************)
EXTENDS Integers, Sequences, FiniteSets, TLC

\* ------------------------------------------------------------------------
\* Bounds of the model
\* ------------------------------------------------------------------------
MaxModeArg == 4
NumTempSamples == 2
NumPressSamples == 3
NumCalibBlocks == 2

\* ------------------------------------------------------------------------
\* Module constants of the driver
\* ------------------------------------------------------------------------
_REG_CALIB_OFFSET == 170
_REG_CONTROL_MEASUREMENT == 244
_REG_DATA == 246
_CMD_START_CONVERSION == 32
_CMD_TEMPERATURE == 14
_CMD_PRESSURE == 20
OS_MODE_SINGLE == 0
OS_MODE_2 == 1
OS_MODE_4 == 2
OS_MODE_8 == 3
_WAIT_TEMPERATURE == 45
_WAIT_PRESSURE == <<45, 75, 135, 255>>
CALIB_LEN == 22
ADDR_LOW == 7
ADDR_HIGH == 120

\* ------------------------------------------------------------------------
\* Integer arithmetic with Python's semantics
\* ------------------------------------------------------------------------
RECURSIVE Pow2(_)
Pow2(k) == IF k = 0 THEN 1 ELSE 2 * Pow2(k - 1)

\* division that truncates toward zero, as in C
TruncDiv(a, b) ==
    LET q == (IF a < 0 THEN 0 - a ELSE a) \div (IF b < 0 THEN 0 - b ELSE b)
    IN  IF (a < 0) = (b < 0) THEN q ELSE 0 - q

\* Python's //: floor division for either sign of the divisor (b # 0)
FloorDiv(a, b) == IF b > 0 THEN a \div b ELSE (0 - a) \div (0 - b)

\* mutant of Shr: a shift that rounds a negative value toward zero
ShrTrunc(x, k) == TruncDiv(x, Pow2(k))

\* Python's >> and << on unbounded signed integers (k >= 0)
Shr(x, k) == x \div Pow2(k)
Shl(x, k) == x * Pow2(k)

\* Python's | on non-negative integers
RECURSIVE BitOr(_, _)
BitOr(a, b) ==
    IF a = 0 THEN b
    ELSE IF b = 0 THEN a
    ELSE (IF (a % 2) + (b % 2) > 0 THEN 1 ELSE 0) + 2 * BitOr(a \div 2, b \div 2)

\* <<q, r>> with a * b = q * c + r and 0 <= r < c, for b >= 0 and c > 0,
\* computed bit by bit so that no intermediate value exceeds 2*c + |a|
RECURSIVE MulDivMod(_, _, _)
MulDivMod(a, b, c) ==
    IF b = 0 THEN <<0, 0>>
    ELSE LET h == MulDivMod(a, b \div 2, c)
             s == 2 * h[2] + (b % 2) * a
         IN  <<2 * h[1] + (s \div c), s % c>>

\* (a * b) // c exactly, for any signs and c # 0
MulFloorDiv(a, b, c) ==
    LET a1 == IF c < 0 THEN 0 - a ELSE a
        c1 == IF c < 0 THEN 0 - c ELSE c
        a2 == IF b < 0 THEN 0 - a1 ELSE a1
        b2 == IF b < 0 THEN 0 - b ELSE b
    IN  MulDivMod(a2, b2, c1)[1]

\* (a * b) >> k exactly
MulShr(a, b, k) == MulFloorDiv(a, b, Pow2(k))

\* ------------------------------------------------------------------------
\* Values
\* ------------------------------------------------------------------------
\* Python's None, a float num / den, and the altitude computed from a
\* pressure num / den (the logarithm is kept symbolic)
NoneVal == [kind |-> "None", num |-> 0, den |-> 1]
Float(n, d) == [kind |-> "float", num |-> n, den |-> d]
IntVal(n) == [kind |-> "int", num |-> n, den |-> 1]
AltitudeOf(p) == [kind |-> "altitude", num |-> p.num, den |-> p.den]

\* ------------------------------------------------------------------------
\* Calibration block: struct.unpack('>hhhHHHhhhhh', bytearray(calib))
\* ------------------------------------------------------------------------
BE16(hi, lo) == hi * 256 + lo
Signed16(u) == IF u >= 32768 THEN u - 65536 ELSE u
CalibSigned == <<TRUE, TRUE, TRUE, FALSE, FALSE, FALSE, TRUE, TRUE, TRUE, TRUE, TRUE>>

struct_unpack(calib) ==
    [i \in 1..11 |->
        LET u == BE16(calib[2 * i - 1], calib[2 * i])
        IN  IF CalibSigned[i] THEN Signed16(u) ELSE u]

\* ------------------------------------------------------------------------
\* Compensation: lines 139-161 of _update_sensor_data.  c is the tuple
\* (_ac1, _ac2, _ac3, _ac4, _ac5, _ac6, _b1, _b2, _mb, _mc, _md).
\* The result says which exception, if any, ended the computation, whether
\* _temperature had been assigned by then, and the integers T and P with
\* _temperature = T / 10.0 and _pressure = P / 100.0.
\* ------------------------------------------------------------------------
compensate(c, ut, up, os_mode) ==
    LET ac1 == c[1]
        ac2 == c[2]
        ac3 == c[3]
        ac4 == c[4]
        ac5 == c[5]
        ac6 == c[6]
        b1 == c[7]
        b2 == c[8]
        mc == c[10]
        md == c[11]
        x1a == Shr((ut - ac6) * ac5, 15)
    IN  IF x1a + md = 0
        THEN [err |-> "ZeroDivisionError", tset |-> FALSE, T |-> 0, P |-> 0]
        ELSE
        LET x2a == FloorDiv(Shl(mc, 11), x1a + md)
            b5 == x1a + x2a
            T == FloorDiv(b5 + 8, Pow2(4))
            b6 == b5 - 4000
            x1b == b2 * Shr(b6 * b6, 12)
            x2b == ac2 * b6
            x3b == Shr(x1b + x2b, 11)
            b3 == Shr(Shl(ac1 * 4 + x3b, os_mode) + 2, 2)
            x1c == Shr(ac3 * b6, 13)
            x2c == Shr(MulShr(b1, b6 * b6, 12), 16)
            x3c == Shr((x1c + x2c) + 2, 2)
            b4 == Shr(ac4 * (x3c + 32768), 15)
            \* b7 = b7d * b7k may need 33 bits: it is kept as its two factors,
            \* b7 < 0x80000000 is b7d <= 0x7FFFFFFF // b7k (b7k > 0), and the
            \* quotients are taken from the factors
            b7d == up - b3
            b7k == Shr(50000, os_mode)
        IN  IF b4 = 0
            THEN [err |-> "ZeroDivisionError", tset |-> TRUE, T |-> T, P |-> 0]
            ELSE
            LET p == IF b7d <= FloorDiv(2147483647, b7k)
                     THEN MulFloorDiv(b7d, 2 * b7k, b4)
                     ELSE MulFloorDiv(b7d, b7k, b4) * 2
                x1d == MulShr(p, p, 16)
                x1e == MulShr(x1d, 3038, 16)
                x2e == MulShr(0 - 7357, p, 16)
            IN  [err |-> "", tset |-> TRUE, T |-> T, P |-> p + Shr(x1e + x2e + 3791, 4)]

\* ------------------------------------------------------------------------
\* Inputs of the model
\* ------------------------------------------------------------------------
Min(a, b) == IF a < b THEN a ELSE b
FirstN(list, n) == {list[i] : i \in 1..Min(n, Len(list))}

\* 22-byte calibration blocks the device may hold: the data sheet's example
\* coefficients; the same with MD = -4743; the same with AC4 = 0
CalibBlockList ==
    << <<1, 152, 255, 184, 199, 209, 127, 229, 127, 245, 90, 113,
         24, 46, 0, 4, 128, 0, 221, 249, 11, 52>>,
       <<1, 152, 255, 184, 199, 209, 127, 229, 127, 245, 90, 113,
         24, 46, 0, 4, 128, 0, 221, 249, 237, 121>>,
       <<1, 152, 255, 184, 199, 209, 0, 0, 127, 245, 90, 113,
         24, 46, 0, 4, 128, 0, 221, 249, 11, 52>> >>
\* bytes the data register may hold after a temperature conversion
\* (UT = 27898, 25000, 26000) and after a pressure conversion
TempSampleList == << <<108, 250>>, <<97, 168>>, <<101, 144>> >>
PressSampleList == << <<93, 35, 0>>, <<1, 35, 200>>, <<255, 35, 7>>, <<126, 250, 9>> >>

ReadingOps == {"temperature", "pressure", "altitude"}

\* ------------------------------------------------------------------------
\* State
\* ------------------------------------------------------------------------
VARIABLES
    callers,       \* the threads that use the device
    obj,           \* "none", "ok" (constructed) or "failed" (__init__ raised)
    ctorErr,       \* the exception __init__ raised, "" if none
    ctorArgs,      \* history: the addr argument and the bus behaviour __init__ met
    ctorTrace,     \* the bus operations __init__ performed
    _addr,
    _os_mode,
    coeffs,        \* (_ac1, ..., _md); <<>> while they are None
    _pressure,
    _temperature,
    modeSetting,   \* history: the mode last accepted by __init__ or the setter
    pc,            \* per caller: position in the call it is executing
    op,            \* per caller: the operation it called last
    arg,           \* per caller: the argument of that call (0 if it takes none)
    ut,            \* per caller: local ut of _update_sensor_data
    up,            \* per caller: local up of _update_sensor_data
    trace,         \* per caller: bus writes, sleeps and bus reads of its call
    result         \* per caller: outcome of its last call

vars == <<callers, obj, ctorErr, ctorArgs, ctorTrace, _addr, _os_mode, coeffs,
          _pressure, _temperature, modeSetting, pc, op, arg, ut, up, trace, result>>
devVars == <<obj, ctorErr, ctorArgs, ctorTrace, _addr, coeffs>>
valVars == <<_pressure, _temperature>>
modeVars == <<_os_mode, modeSetting>>

\* The inputs are drawn from the full sets when one thread uses the device;
\* with several threads the interleavings are explored over one calibration
\* block, one sample of each kind and fewer argument values.
Shared == Cardinality(callers) > 1
\* addr arguments of the constructor: 0x00, 0x07, 0x08, 0x77, 0x78
AddrArgs == IF Shared THEN {119, 120} ELSE {0, 7, 8, 119, 120}
\* os_mode arguments of the constructor and of the setter
CtorModeArgs == IF Shared THEN {0, MaxModeArg} ELSE 0..MaxModeArg
SetModeArgs == IF Shared THEN {1, MaxModeArg} ELSE (0 - 1)..MaxModeArg
CalibBlocks == FirstN(CalibBlockList, IF Shared THEN 1 ELSE NumCalibBlocks)
\* what read_i2c_block_data(addr, _REG_CALIB_OFFSET, 22) may hand back:
\* a full block or a block cut short by one byte
CalibReads == CalibBlocks \cup {SubSeq(b, 1, CALIB_LEN - 1) : b \in CalibBlocks}
TempSamples == FirstN(TempSampleList, IF Shared THEN 1 ELSE NumTempSamples)
PressSamples == FirstN(PressSampleList, IF Shared THEN 1 ELSE NumPressSamples)

\* a bus event: its kind, the register, the byte written, the length asked
\* for or the time slept (arg), the bytes read and whether it succeeded
Event(ev, reg, a, data, ok) ==
    [ev |-> ev, reg |-> reg, arg |-> a, data |-> data, ok |-> ok]
Returned(v) == [status |-> "ok", err |-> "", val |-> v]
Raised(e) == [status |-> "error", err |-> e, val |-> NoneVal]
NoResult == [status |-> "none", err |-> "", val |-> NoneVal]

InitWith(cs) ==
    /\ callers = cs
    /\ obj = "none"
    /\ ctorErr = ""
    /\ ctorArgs = [addr |-> 0, busOk |-> FALSE, readOk |-> FALSE, len |-> 0]
    /\ ctorTrace = <<>>
    /\ _addr = 0
    /\ _os_mode = 0
    /\ coeffs = <<>>
    /\ _pressure = NoneVal
    /\ _temperature = NoneVal
    /\ modeSetting = 0
    /\ pc = [t \in cs |-> "idle"]
    /\ op = [t \in cs |-> ""]
    /\ arg = [t \in cs |-> 0]
    /\ ut = [t \in cs |-> 0]
    /\ up = [t \in cs |-> 0]
    /\ trace = [t \in cs |-> <<>>]
    /\ result = [t \in cs |-> NoResult]

\* the single-threaded use the driver is written for
Init == InitWith({1})
\* two threads sharing the device object
InitConc == InitWith({1, 2})

\* ------------------------------------------------------------------------
\* __init__ and _read_calibration_data
\* ------------------------------------------------------------------------
\* mutant of AddrValid: the two bounds taken inclusive
AddrValidInclusive(addr) == addr >= ADDR_LOW /\ addr <= ADDR_HIGH

\* line 41: assert(addr > 0b000111 and addr < 0b1111000)
AddrValid(addr) == addr > ADDR_LOW /\ addr < ADDR_HIGH

\* struct.unpack raises struct.error unless the buffer holds exactly the
\* 22 bytes of '>hhhHHHhhhhh'
UnpackAccepts(calib) == Len(calib) = CALIB_LEN

CtorFails(e, busTrace) ==
    /\ obj' = "failed"
    /\ ctorErr' = e
    /\ ctorTrace' = busTrace
    /\ UNCHANGED <<_addr, coeffs, valVars, modeVars>>

\* mutant of Construct: a calibration read that fails or comes back short
\* is swallowed and the device is used with zeroed coefficients
ConstructLenient(busOk, addr, os_mode, readOk, calib) ==
    /\ obj = "none"
    /\ ctorArgs' = [addr |-> addr, busOk |-> busOk, readOk |-> readOk, len |-> Len(calib)]
    /\ LET opened == <<Event("open", 0, 0, <<>>, busOk)>>
           read == Append(opened, Event("read", _REG_CALIB_OFFSET, CALIB_LEN,
                                        IF readOk THEN calib ELSE <<>>, readOk))
       IN  IF ~AddrValid(addr) THEN CtorFails("AssertionError", <<>>)
           ELSE IF ~busOk THEN CtorFails("IOError", opened)
           ELSE /\ obj' = "ok"
                /\ ctorErr' = ""
                /\ ctorTrace' = read
                /\ _addr' = addr
                /\ _os_mode' = os_mode
                /\ modeSetting' = os_mode
                /\ coeffs' = IF readOk /\ UnpackAccepts(calib)
                             THEN struct_unpack(calib)
                             ELSE [i \in 1..11 |-> 0]
                /\ _pressure' = NoneVal
                /\ _temperature' = NoneVal
    /\ UNCHANGED <<callers, pc, op, arg, ut, up, trace, result>>

\* BMP180(bus, addr, os_mode): busOk says whether smbus.SMBus(bus) opens the
\* bus, readOk whether the calibration read succeeds, calib what it returns
Construct(busOk, addr, os_mode, readOk, calib) ==
    /\ obj = "none"
    /\ ctorArgs' = [addr |-> addr, busOk |-> busOk, readOk |-> readOk, len |-> Len(calib)]
    /\ LET opened == <<Event("open", 0, 0, <<>>, busOk)>>
           read == Append(opened, Event("read", _REG_CALIB_OFFSET, CALIB_LEN,
                                        IF readOk THEN calib ELSE <<>>, readOk))
       IN  IF ~AddrValid(addr) THEN CtorFails("AssertionError", <<>>)
           ELSE IF ~busOk THEN CtorFails("IOError", opened)
           ELSE IF ~readOk THEN CtorFails("IOError", read)
           ELSE IF ~UnpackAccepts(calib) THEN CtorFails("struct.error", read)
           ELSE /\ obj' = "ok"
                /\ ctorErr' = ""
                /\ ctorTrace' = read
                /\ _addr' = addr
                /\ _os_mode' = os_mode
                /\ modeSetting' = os_mode
                /\ coeffs' = struct_unpack(calib)
                /\ _pressure' = NoneVal
                /\ _temperature' = NoneVal
    /\ UNCHANGED <<callers, pc, op, arg, ut, up, trace, result>>

\* ------------------------------------------------------------------------
\* os_mode property
\* ------------------------------------------------------------------------
\* mutant of ModeValid: only the lower bound is checked
ModeValidNoUpperBound(os_mode) == os_mode >= OS_MODE_SINGLE

\* lines 107-110: the setter's assert
ModeValid(os_mode) ==
    \/ os_mode = OS_MODE_SINGLE
    \/ os_mode = OS_MODE_2
    \/ os_mode = OS_MODE_4
    \/ os_mode = OS_MODE_8

GetMode(t) ==
    /\ obj = "ok"
    /\ pc[t] = "idle"
    /\ op' = [op EXCEPT ![t] = "get_os_mode"]
    /\ arg' = [arg EXCEPT ![t] = 0]
    /\ result' = [result EXCEPT ![t] = Returned(IntVal(_os_mode))]
    /\ trace' = [trace EXCEPT ![t] = <<>>]
    /\ UNCHANGED <<callers, devVars, valVars, modeVars, pc, ut, up>>

SetMode(t, os_mode) ==
    /\ obj = "ok"
    /\ pc[t] = "idle"
    /\ op' = [op EXCEPT ![t] = "set_os_mode"]
    /\ arg' = [arg EXCEPT ![t] = os_mode]
    /\ trace' = [trace EXCEPT ![t] = <<>>]
    /\ IF ModeValid(os_mode)
       THEN /\ _os_mode' = os_mode
            /\ modeSetting' = os_mode
            /\ result' = [result EXCEPT ![t] = Returned(NoneVal)]
       ELSE /\ result' = [result EXCEPT ![t] = Raised("AssertionError")]
            /\ UNCHANGED modeVars
    /\ UNCHANGED <<callers, devVars, valVars, pc, ut, up>>

\* ------------------------------------------------------------------------
\* temperature(), pressure(), altitude() and _update_sensor_data
\* ------------------------------------------------------------------------
\* an exception leaves the call: nothing is caught between the bus and the
\* caller of the accessor
Raise(t, e) ==
    /\ pc' = [pc EXCEPT ![t] = "idle"]
    /\ result' = [result EXCEPT ![t] = Raised(e)]

\* mutant of BusFault: the IOError is swallowed and the accessor hands back
\* the pressure stored by an earlier reading
BusFaultStale(t, ev) ==
    /\ trace' = [trace EXCEPT ![t] = Append(@, ev)]
    /\ pc' = [pc EXCEPT ![t] = "idle"]
    /\ result' = [result EXCEPT ![t] = Returned(_pressure)]
    /\ UNCHANGED <<valVars, ut, up>>

\* a bus write or read raised IOError; ev is the failed operation
BusFault(t, ev) ==
    /\ trace' = [trace EXCEPT ![t] = Append(@, ev)]
    /\ Raise(t, "IOError")
    /\ UNCHANGED <<valVars, ut, up>>

\* lines 70, 77, 88: the accessor enters _update_sensor_data
CallStart(t, o) ==
    /\ obj = "ok"
    /\ pc[t] = "idle"
    /\ pc' = [pc EXCEPT ![t] = "temp_cmd"]
    /\ op' = [op EXCEPT ![t] = o]
    /\ arg' = [arg EXCEPT ![t] = 0]
    /\ ut' = [ut EXCEPT ![t] = 0]
    /\ up' = [up EXCEPT ![t] = 0]
    /\ trace' = [trace EXCEPT ![t] = <<>>]
    /\ result' = [result EXCEPT ![t] = NoResult]
    /\ UNCHANGED <<callers, devVars, valVars, modeVars>>

\* line 123 and line 131
TemperatureCommand == BitOr(_CMD_START_CONVERSION, _CMD_TEMPERATURE)
PressureCommand(os_mode) ==
    BitOr(BitOr(_CMD_START_CONVERSION, Shl(os_mode, 6)), _CMD_PRESSURE)

\* lines 123-125
WriteTemperatureCommand(t, ok) ==
    /\ pc[t] = "temp_cmd"
    /\ LET ev == Event("write", _REG_CONTROL_MEASUREMENT, TemperatureCommand, <<>>, ok)
       IN  IF ok
           THEN /\ trace' = [trace EXCEPT ![t] = Append(@, ev)]
                /\ pc' = [pc EXCEPT ![t] = "temp_wait"]
                /\ UNCHANGED <<valVars, ut, up, result>>
           ELSE BusFault(t, ev)
    /\ UNCHANGED <<callers, devVars, modeVars, op, arg>>

\* line 126
WaitTemperature(t) ==
    /\ pc[t] = "temp_wait"
    /\ trace' = [trace EXCEPT ![t] = Append(@, Event("sleep", 0, _WAIT_TEMPERATURE, <<>>, TRUE))]
    /\ pc' = [pc EXCEPT ![t] = "temp_read"]
    /\ UNCHANGED <<callers, devVars, valVars, modeVars, op, arg, ut, up, result>>

\* line 129
CombineTemperature(vals) == BitOr(Shl(vals[1], 8), vals[2])

\* lines 127-129
ReadTemperature(t, ok, vals) ==
    /\ pc[t] = "temp_read"
    /\ LET ev == Event("read", _REG_DATA, 2, IF ok THEN vals ELSE <<>>, ok)
       IN  IF ok
           THEN /\ trace' = [trace EXCEPT ![t] = Append(@, ev)]
                /\ ut' = [ut EXCEPT ![t] = CombineTemperature(vals)]
                /\ pc' = [pc EXCEPT ![t] = "press_cmd"]
                /\ UNCHANGED <<valVars, up, result>>
           ELSE BusFault(t, ev)
    /\ UNCHANGED <<callers, devVars, modeVars, op, arg>>

\* lines 131-133
WritePressureCommand(t, ok) ==
    /\ pc[t] = "press_cmd"
    /\ LET ev == Event("write", _REG_CONTROL_MEASUREMENT, PressureCommand(_os_mode), <<>>, ok)
       IN  IF ok
           THEN /\ trace' = [trace EXCEPT ![t] = Append(@, ev)]
                /\ pc' = [pc EXCEPT ![t] = "press_wait"]
                /\ UNCHANGED <<valVars, ut, up, result>>
           ELSE BusFault(t, ev)
    /\ UNCHANGED <<callers, devVars, modeVars, op, arg>>

\* mutant of WaitPressureFor: the temperature wait is used for every mode
WaitPressureFixed(os_mode) == _WAIT_TEMPERATURE

\* _WAIT_PRESSURE[os_mode] with Python's list indexing: -4..3 are in range
WaitIndexInRange(os_mode) == os_mode >= 0 - Len(_WAIT_PRESSURE) /\ os_mode < Len(_WAIT_PRESSURE)
WaitPressureFor(os_mode) ==
    IF os_mode >= 0 THEN _WAIT_PRESSURE[os_mode + 1]
    ELSE _WAIT_PRESSURE[os_mode + Len(_WAIT_PRESSURE) + 1]

\* line 134
WaitPressure(t) ==
    /\ pc[t] = "press_wait"
    /\ IF WaitIndexInRange(_os_mode)
       THEN /\ trace' = [trace EXCEPT ![t] =
                            Append(@, Event("sleep", 0, WaitPressureFor(_os_mode), <<>>, TRUE))]
            /\ pc' = [pc EXCEPT ![t] = "press_read"]
            /\ UNCHANGED result
       ELSE /\ Raise(t, "IndexError")
            /\ UNCHANGED trace
    /\ UNCHANGED <<callers, devVars, valVars, modeVars, op, arg, ut, up>>

\* line 137: the third byte of the value is vals[0] again, not vals[2]
CombinePressure(vals, os_mode) ==
    Shr(BitOr(BitOr(Shl(vals[1], 16), Shl(vals[2], 8)), vals[1]), 8 - os_mode)

\* lines 135-137
ReadPressure(t, ok, vals) ==
    /\ pc[t] = "press_read"
    /\ LET ev == Event("read", _REG_DATA, 3, IF ok THEN vals ELSE <<>>, ok)
       IN  IF ~ok THEN BusFault(t, ev)
           ELSE /\ trace' = [trace EXCEPT ![t] = Append(@, ev)]
                /\ IF 8 - _os_mode < 0
                   THEN /\ Raise(t, "ValueError")
                        /\ UNCHANGED up
                   ELSE /\ up' = [up EXCEPT ![t] = CombinePressure(vals, _os_mode)]
                        /\ pc' = [pc EXCEPT ![t] = "compensate"]
                        /\ UNCHANGED result
                /\ UNCHANGED <<valVars, ut>>
    /\ UNCHANGED <<callers, devVars, modeVars, op, arg>>

\* mutant of Compensate: values already stored are kept instead of being
\* recomputed from the new samples
CompensateCached(t) ==
    /\ pc[t] = "compensate"
    /\ LET r == compensate(coeffs, ut[t], up[t], _os_mode)
       IN  /\ _temperature' = IF r.tset /\ _temperature = NoneVal
                              THEN Float(r.T, 10) ELSE _temperature
           /\ _pressure' = IF r.err = "" /\ _pressure = NoneVal
                           THEN Float(r.P, 100) ELSE _pressure
           /\ IF r.err = ""
              THEN /\ pc' = [pc EXCEPT ![t] = "return"]
                   /\ UNCHANGED result
              ELSE Raise(t, r.err)
    /\ UNCHANGED <<callers, devVars, modeVars, op, arg, ut, up, trace>>

\* lines 139-161
Compensate(t) ==
    /\ pc[t] = "compensate"
    /\ LET r == compensate(coeffs, ut[t], up[t], _os_mode)
       IN  /\ _temperature' = IF r.tset THEN Float(r.T, 10) ELSE _temperature
           /\ _pressure' = IF r.err = "" THEN Float(r.P, 100) ELSE _pressure
           /\ IF r.err = ""
              THEN /\ pc' = [pc EXCEPT ![t] = "return"]
                   /\ UNCHANGED result
              ELSE Raise(t, r.err)
    /\ UNCHANGED <<callers, devVars, modeVars, op, arg, ut, up, trace>>

\* lines 89-92: math.log raises ValueError unless p / p0 > 0
altitude(p) == IF p.num > 0 THEN Returned(AltitudeOf(p)) ELSE Raised("ValueError")

\* lines 71, 78, 89-92: what the accessor hands back after the update
AccessorResult(o) ==
    IF o = "temperature" THEN Returned(_temperature)
    ELSE IF o = "pressure" THEN Returned(_pressure)
    ELSE altitude(_pressure)

Return(t) ==
    /\ pc[t] = "return"
    /\ pc' = [pc EXCEPT ![t] = "idle"]
    /\ result' = [result EXCEPT ![t] = AccessorResult(op[t])]
    /\ UNCHANGED <<callers, devVars, valVars, modeVars, op, arg, ut, up, trace>>

\* ------------------------------------------------------------------------
\* Specifications
\* ------------------------------------------------------------------------
Next ==
    \/ \E busOk \in BOOLEAN, addr \in AddrArgs, m \in CtorModeArgs,
          readOk \in BOOLEAN, calib \in CalibReads :
          Construct(busOk, addr, m, readOk, calib)
    \/ \E t \in callers : GetMode(t)
    \/ \E t \in callers, m \in SetModeArgs : SetMode(t, m)
    \/ \E t \in callers, o \in ReadingOps : CallStart(t, o)
    \/ \E t \in callers, ok \in BOOLEAN : WriteTemperatureCommand(t, ok)
    \/ \E t \in callers : WaitTemperature(t)
    \/ \E t \in callers, ok \in BOOLEAN, vals \in TempSamples : ReadTemperature(t, ok, vals)
    \/ \E t \in callers, ok \in BOOLEAN : WritePressureCommand(t, ok)
    \/ \E t \in callers : WaitPressure(t)
    \/ \E t \in callers, ok \in BOOLEAN, vals \in PressSamples : ReadPressure(t, ok, vals)
    \/ \E t \in callers : Compensate(t)
    \/ \E t \in callers : Return(t)

Spec == Init /\ [][Next]_vars
SpecConc == InitConc /\ [][Next]_vars

\* ------------------------------------------------------------------------
\* The documented compensation pipeline (data sheet order and precedence,
\* floor division in the X2/B5 line, unsigned 32-bit casts on X3 + 32768
\* and on UP in the B4 and B7 lines), against which the code is compared
\* ------------------------------------------------------------------------
\* <<q, r>> with 2^32 = q * d + r and 0 <= r < d
Pow32DivMod(d) == MulDivMod(65536, 65536, d)

\* AC4 * (unsigned)y >> 15, where (unsigned)y is y + 2^32 for a negative y
RefB4(ac4, y) ==
    IF y >= 0 THEN MulShr(ac4, y, 15) ELSE Shl(ac4, 17) + MulShr(ac4, y, 15)

\* P from B7 = (d * k) mod 2^32 and B4 > 0, where d = (unsigned)UP - B3 and
\* k = 50000 >> mode: with hi = (d * k) >> 31, the product wraps hi >> 1
\* times and B7 >= 0x80000000 exactly when hi is odd
RefP(d, k, B4) ==
    LET hi == Shr(MulShr(d, k, 16), 15)
        w == hi \div 2
        n == MulDivMod(d, k, B4)
        W == Pow32DivMod(B4)
        q == n[1] - w * W[1]
        r == n[2] - w * W[2]
    IN  IF hi % 2 = 0 THEN 2 * q + ((2 * r) \div B4) ELSE (q + (r \div B4)) * 2

RefCompensate(c, UT, UP, mode) ==
    LET AC1 == c[1]
        AC2 == c[2]
        AC3 == c[3]
        AC4 == c[4]
        AC5 == c[5]
        AC6 == c[6]
        B1 == c[7]
        B2 == c[8]
        MC == c[10]
        MD == c[11]
        X1a == Shr((UT - AC6) * AC5, 15)
    IN  IF X1a + MD = 0 THEN [def |-> FALSE, T |-> 0, P |-> 0]
        ELSE
        LET X2a == FloorDiv(Shl(MC, 11), X1a + MD)
            B5 == X1a + X2a
            T == Shr(B5 + 8, 4)
            B6 == B5 - 4000
            X1b == Shr(B2 * Shr(B6 * B6, 12), 11)
            X2b == Shr(AC2 * B6, 11)
            X3b == X1b + X2b
            B3 == Shr(Shl(AC1 * 4 + X3b, mode) + 2, 2)
            X1c == Shr(AC3 * B6, 13)
            X2c == Shr(B1 * Shr(B6 * B6, 12), 16)
            X3c == Shr((X1c + X2c) + 2, 2)
            B4 == RefB4(AC4, X3c + 32768)
        IN  IF B4 <= 0 THEN [def |-> FALSE, T |-> T, P |-> 0]
            ELSE
            LET P == RefP(UP - B3, Shr(50000, mode), B4)
                X1d == MulShr(P, P, 16)
                X1e == MulShr(X1d, 3038, 16)
                X2e == MulShr(0 - 7357, P, 16)
            IN  [def |-> TRUE, T |-> T, P |-> P + Shr(X1e + X2e + 3791, 4)]

\* ------------------------------------------------------------------------
\* Claims
\* ------------------------------------------------------------------------
\* a Python float num / den equal to the number n / d
EqualsRatio(v, n, d) == v.kind = "float" /\ v.num * d = n * v.den

ReadingDone(t) == pc[t] = "idle" /\ op[t] \in ReadingOps /\ result[t].status = "ok"
HasFault(t) == \E i \in 1..Len(trace[t]) : ~trace[t][i].ok

\* C1: whenever the compensation code of _update_sensor_data has run to its
\* end, the temperature and the pressure it stored equal the result of the
\* documented reference pipeline on the same coefficients, UT, UP and mode.
C1_CompensationEqualsReference ==
    \A t \in callers :
        pc[t] = "return" =>
            LET ref == RefCompensate(coeffs, ut[t], up[t], _os_mode)
            IN  /\ ref.def
                /\ _temperature = Float(ref.T, 10)
                /\ _pressure = Float(ref.P, 100)

\* the documented example: reference coefficients, UT = 27898, UP = 23843,
\* mode SINGLE, and an accessor that has returned
RefCoeffs == <<408, -72, -14383, 32741, 32757, 23153, 6190, 4, -32768, -8711, 2868>>
ReferenceCase(t) ==
    /\ ReadingDone(t)
    /\ op[t] \in {"temperature", "pressure"}
    /\ coeffs = RefCoeffs
    /\ ut[t] = 27898
    /\ up[t] = 23843
    /\ _os_mode = 0

\* C2 as stated: in the documented example temperature() returns 15.0 and
\* pressure() returns 69964.0.
C2_ReferenceExampleAsStated ==
    \A t \in callers :
        ReferenceCase(t) =>
            /\ op[t] = "temperature" => EqualsRatio(result[t].val, 15, 1)
            /\ op[t] = "pressure" => EqualsRatio(result[t].val, 69964, 1)

\* C2 as amended: in the documented example temperature() returns 15.0 and
\* pressure() returns 699.65, that is 69965 / 100.0.
C2_ReferenceExample ==
    \A t \in callers :
        ReferenceCase(t) =>
            /\ op[t] = "temperature" => EqualsRatio(result[t].val, 15, 1)
            /\ op[t] = "pressure" => EqualsRatio(result[t].val, 69965, 100)

C2_ReferenceExampleReached ==
    \E t \in callers : ReferenceCase(t) /\ op[t] = "pressure"

InStage(t) == pc[t] \in {"temp_wait", "temp_read", "press_wait", "press_read"}

\* C4: no caller's command write falls between another caller's command
\* write and its matching data read, i.e. never are two callers both
\* between a command write and the read that belongs to it.
C4_StagesAtomic ==
    \A t1 \in callers, t2 \in callers :
        t1 # t2 => ~(InStage(t1) /\ InStage(t2))

\* a step in which caller t has called the mode setter
SetterStep(t) ==
    /\ pc[t] = "idle"
    /\ pc'[t] = "idle"
    /\ op'[t] = "set_os_mode"
    /\ <<op[t], arg[t], result[t], _os_mode>> # <<op'[t], arg'[t], result'[t], _os_mode'>>
C5_SetterStepOk ==
    \A t \in callers :
        SetterStep(t) =>
            IF arg'[t] \in {0, 1, 2, 3}
            THEN result'[t].status = "ok" /\ _os_mode' = arg'[t]
            ELSE /\ result'[t].status = "error"
                 /\ result'[t].err = "AssertionError"
                 /\ _os_mode' = _os_mode
C5_SetterState ==
    \A t \in callers :
        /\ (op[t] = "set_os_mode" /\ arg[t] \in {0, 1, 2, 3}) =>
              result[t].status = "ok" /\ (callers = {t} => _os_mode = arg[t])
        /\ (op[t] = "set_os_mode" /\ arg[t] \notin {0, 1, 2, 3}) =>
              result[t] = Raised("AssertionError")
        /\ op[t] = "get_os_mode" =>
              result[t] = Returned(IntVal(modeSetting))
\* C5: a call of the mode setter with a value outside 0..3 raises the
\* assertion error and leaves the mode as it was; with a value inside 0..3
\* it succeeds and stores the value; and the getter returns the stored
\* mode, which is the last value so accepted.
C5_ModeSetterValidates == [][C5_SetterStepOk]_vars /\ []C5_SetterState

C5_InvalidModeRejected ==
    \E t \in callers :
        /\ op[t] = "set_os_mode"
        /\ arg[t] = 4
        /\ result[t].status = "error"
        /\ _os_mode = 2

\* the documented order of the bus events of one reading, and the value
\* the compensation gives for the bytes read in caller t's own call
EventShape(e) == <<e.ev, e.reg, IF e.ev = "read" THEN e.arg ELSE 0>>
CycleShape ==
    << <<"write", 244, 0>>, <<"sleep", 0, 0>>, <<"read", 246, 2>>,
       <<"write", 244, 0>>, <<"sleep", 0, 0>>, <<"read", 246, 3>> >>
FreshValue(t) ==
    LET r == compensate(coeffs, CombineTemperature(trace[t][3].data),
                        CombinePressure(trace[t][6].data, _os_mode), _os_mode)
    IN  IF op[t] = "temperature" THEN Float(r.T, 10)
        ELSE IF op[t] = "pressure" THEN Float(r.P, 100)
        ELSE AltitudeOf(Float(r.P, 100))
\* C6: the bus events of a call of temperature(), pressure() or altitude()
\* are a prefix of: write the temperature command to the control register,
\* sleep, read 2 bytes from the data register, write the pressure command,
\* sleep, read 3 bytes; a call that returns a value has performed all six,
\* once, and the value is the one the compensation gives for the bytes
\* read in that call.
C6_EachCallOneFreshCycle ==
    \A t \in callers :
        op[t] \in ReadingOps =>
            /\ Len(trace[t]) <= 6
            /\ \A i \in 1..Len(trace[t]) : EventShape(trace[t][i]) = CycleShape[i]
            /\ trace[t] # <<>> => trace[t][1].arg = 46
            /\ ReadingDone(t) =>
                  /\ Len(trace[t]) = 6
                  /\ result[t].val = FreshValue(t)

C6_FullCycleReturned ==
    \E t \in callers :
        /\ ReadingDone(t)
        /\ op[t] = "altitude"
        /\ Len(trace[t]) = 6
        /\ result[t].val = AltitudeOf(Float(65732, 100))

\* C7: with the mode set to m in 0..3, a reading writes the pressure command
\* 0x34 | (m << 6) and then sleeps 4.5, 7.5, 13.5 or 25.5 ms according to
\* m, where m is the mode last accepted; the temperature wait is 4.5 ms.
C7_PressureCommandAndWait ==
    \A t \in callers :
        (op[t] \in ReadingOps /\ modeSetting \in 0..3) =>
            /\ _os_mode = modeSetting
            /\ Len(trace[t]) >= 2 => trace[t][2].arg = 45
            /\ Len(trace[t]) >= 4 => trace[t][4].arg = <<52, 116, 180, 244>>[modeSetting + 1]
            /\ Len(trace[t]) >= 5 => trace[t][5].arg = <<45, 75, 135, 255>>[modeSetting + 1]

C7_ModeEightConversion ==
    \E t \in callers :
        /\ op[t] \in ReadingOps
        /\ modeSetting = 3
        /\ Len(trace[t]) >= 5
        /\ trace[t][4].arg = 244
        /\ trace[t][5].arg = 255

\* the reads of the calibration registers among the bus events tr
CalibrationReads(tr) == {i \in 1..Len(tr) : tr[i].ev = "read" /\ tr[i].reg = 170}
C8_CalibrationState ==
    /\ obj = "ok" =>
          /\ Cardinality(CalibrationReads(ctorTrace)) = 1
          /\ ctorTrace[2].ok
          /\ Len(ctorTrace[2].data) = 22
          /\ Len(coeffs) = 11
          /\ \A i \in 1..11 :
                LET u == 256 * ctorTrace[2].data[2 * i - 1] + ctorTrace[2].data[2 * i]
                IN  coeffs[i] = IF i \in {4, 5, 6} \/ u < 32768 THEN u ELSE u - 65536
    /\ (obj # "none" /\ (~ctorArgs.readOk \/ ctorArgs.len # 22)) => obj = "failed"
    /\ \A t \in callers :
          /\ CalibrationReads(trace[t]) = {}
          /\ (pc[t] # "idle" \/ op[t] # "") => obj = "ok"
C8_CoefficientsKept == obj = "ok" => coeffs' = coeffs
\* C8: the calibration block is read once, by the constructor; the
\* coefficients of a constructed device are the decoding of those 22 bytes
\* and never change; a failed or short calibration read leaves no device,
\* so no call ever runs without coefficients loaded from the device.
C8_CalibrationLoadedOnce == []C8_CalibrationState /\ [][C8_CoefficientsKept]_vars

C8_ReadingWithLoadedCoefficients ==
    \E t \in callers : ReadingDone(t) /\ coeffs = RefCoeffs

\* C9: with a working bus, construction succeeds exactly for 0x07 < addr <
\* 0x78; for any other address it fails with the assertion error before
\* any bus operation.
C9_AddressRange ==
    obj # "none" =>
        /\ (ctorArgs.addr \notin 8..119) =>
              obj = "failed" /\ ctorErr = "AssertionError" /\ ctorTrace = <<>>
        /\ (ctorArgs.busOk /\ ctorArgs.readOk /\ ctorArgs.len = 22) =>
              (obj = "ok" <=> ctorArgs.addr \in 8..119)
        /\ obj = "ok" => _addr = ctorArgs.addr

C9_BoundaryAddressRejected ==
    /\ obj = "failed"
    /\ ctorArgs.addr = 120
    /\ ctorArgs.busOk
    /\ ctorArgs.readOk
    /\ ctorArgs.len = 22
    /\ ctorTrace = <<>>

\* C10: the stored oversampling mode of a constructed device is always one
\* of 0, 1, 2, 3.
C10_ModeAlwaysDefined == obj = "ok" => _os_mode \in {0, 1, 2, 3}

====
